---------------------------- MODULE Spec2Model ----------------------------
(***************************************************************************)
(* A model of xdimmer (src/xdimmer.c): the event loop xloop, the stepper,  *)
(* the self-pipe written by the signal handlers bail/sigusr1/sigusr2 and   *)
(* read by XPeekEventOrTimeout, the XSync alarms, and the backlight        *)
(* devices behind backlight_op and kbd_backlight_op.                       *)
(*                                                                         *)
(* Percentages are C floats in the source.  Here a percentage p is the     *)
(* integer p * range * StepUnit, where range is max - min of the device    *)
(* the value belongs to: every value the program computes (a device        *)
(* reading value * 100 / range, an integer percentage, and a reading plus  *)
(* a multiple of (target - reading) / steps) is a whole number of these    *)
(* units, so the arithmetic below is exact rational arithmetic.  The       *)
(* truncations of the source, (int)x and the float to long conversion of   *)
(* a device write, are kept.  For device ranges that are powers of two,    *)
(* as chosen below, the float arithmetic of the source gives the same      *)
(* device values as this exact arithmetic.                                 *)
(***************************************************************************)
EXTENDS Integers, Sequences, FiniteSets, TLC

\* ------------------------------------------------------------- constants

MSG_EXIT == 1
MSG_DIM == 2
MSG_BRIGHTEN == 3

DEFAULT_DIM_PERCENTAGE == 10

\* als_settings: min_lux, backlight, kbd_backlight of each scene.
als_settings ==
    << [min_lux |-> 0,     backlight |-> 20,  kbd_backlight |-> 80],
       [min_lux |-> 11,    backlight |-> 30,  kbd_backlight |-> 70],
       [min_lux |-> 51,    backlight |-> 40,  kbd_backlight |-> 60],
       [min_lux |-> 201,   backlight |-> 50,  kbd_backlight |-> 50],
       [min_lux |-> 401,   backlight |-> 60,  kbd_backlight |-> 40],
       [min_lux |-> 1001,  backlight |-> 70,  kbd_backlight |-> 30],
       [min_lux |-> 5001,  backlight |-> 80,  kbd_backlight |-> 20],
       [min_lux |-> 10001, backlight |-> 90,  kbd_backlight |-> 10],
       [min_lux |-> 30001, backlight |-> 100, kbd_backlight |-> 0] >>

\* The options of main(): -p is left at its default, the run is one with
\* -s 4 and -b 2.
dim_pct == DEFAULT_DIM_PERCENTAGE
dim_steps == 4
brighten_steps == 2

\* The range the X server reports for the screen's Backlight property, and
\* the range wscons reports for the keyboard backlight.
ScreenMin == 0
ScreenMax == 256
KbdMin == 0
KbdMax == 4

\* ---------------------------------------------------------------- bounds

\* Signals delivered to the process in one run.
MaxSignals == 2
\* X events queued and not yet read by the program.
MaxXQ == 2

\* How the program may start: the options <<dim_screen, dim_kbd, use_als>>
\* of main(), the screen's property value and the keyboard's level.  A
\* device the options leave alone is left at its minimum.
Starts ==
    ({<<TRUE, FALSE, FALSE>>} \X {0, 26, 33, 154} \X {KbdMin})
    \cup {<<<<TRUE, TRUE, FALSE>>, 26, 0>>, <<<<TRUE, TRUE, FALSE>>, 33, 3>>,
          <<<<TRUE, TRUE, FALSE>>, 154, 3>>}
    \cup ({<<FALSE, TRUE, FALSE>>} \X {ScreenMin} \X {0, 3})
    \cup ({<<TRUE, FALSE, TRUE>>} \X {154} \X {KbdMin})

\* The lux values the ambient light sensor may report.
LuxSamples == {5, 12, 15}

\* ------------------------------------------------------------ arithmetic

\* Units per percentage point are range * StepUnit.
StepUnit == dim_steps * brighten_steps
ScreenRange == ScreenMax - ScreenMin
KbdRange == KbdMax - KbdMin

\* The integer percentage n as a screen or keyboard percentage.
ScreenPct(n) == n * ScreenRange * StepUnit
KbdPct(n) == n * KbdRange * StepUnit

\* (int)x of a screen or keyboard percentage x.
ScreenInt(x) == x \div (ScreenRange * StepUnit)
KbdInt(x) == x \div (KbdRange * StepUnit)

\* (int)round(x) of a screen or keyboard percentage x, as a percentage.
ScreenRound(x) == ScreenPct((2 * x + ScreenRange * StepUnit) \div (2 * ScreenRange * StepUnit))
KbdRound(x) == KbdPct((2 * x + KbdRange * StepUnit) \div (2 * KbdRange * StepUnit))

Clamp(v, lo, hi) == IF v < lo THEN lo ELSE IF v > hi THEN hi ELSE v

\* backlight_op(OP_GET): the percentage of the property value `value`.
backlight_get(value) == (value - ScreenMin) * 100 * StepUnit

\* backlight_op(OP_SET, x): the property value written for the percentage x.
backlight_set(x) == Clamp(ScreenMin + (x \div (100 * StepUnit)), ScreenMin, ScreenMax)

\* kbd_backlight_op(OP_GET): the percentage of the level curval.
kbd_backlight_get(curval) == curval * 100 * StepUnit

\* kbd_backlight_op(OP_SET, x): the level written for the percentage x.
kbd_backlight_set(x) == Clamp(x \div (100 * StepUnit), KbdMin, KbdMax)

\* ----------------------------------------------------------------- state

VARIABLES
    dim_screen, dim_kbd, use_als,       \* options, fixed by main()
    dimmed, exiting, force_dim, force_brighten,
    backlight, kbd_backlight,           \* the levels to restore to
    idle_alarm, reset_alarm,            \* "none", "active" or "inactive"
    scr, kbd,                           \* the devices: property value and level
    pipe,                               \* pipemsg: the bytes written and not read
    xq,                                 \* the X events queued for the program
    pc,                                 \* where the main flow of control is
    caller,                             \* who called the running stepper
    new_backlight, new_kbd_backlight, steps, inter,     \* stepper's arguments
    tbacklight, tkbd_backlight, step_inc, kbd_step_inc, j,  \* stepper's locals
    als, lux,                           \* the last reading, and als_fetch's lux
    nsig,                               \* the signals received so far
    hist                                \* what has happened, for the properties

opts == <<dim_screen, dim_kbd, use_als>>
flags == <<dimmed, exiting, force_dim, force_brighten>>
targets == <<backlight, kbd_backlight>>
alarms == <<idle_alarm, reset_alarm>>
devices == <<scr, kbd>>
args == <<new_backlight, new_kbd_backlight, steps, inter>>
locals == <<tbacklight, tkbd_backlight, step_inc, kbd_step_inc, j>>
counts == <<nsig>>
light == <<als, lux>>

vars == <<opts, flags, targets, alarms, devices, pipe, xq, pc, caller, args,
          locals, light, counts, hist>>

Running == pc \notin {"done", "killed"}

\* The stepper's arguments and locals outside a call of stepper.
NoArgs == new_backlight' = 0 /\ new_kbd_backlight' = 0 /\ steps' = 0 /\ inter' = FALSE
NoLocals ==
    /\ tbacklight' = 0 /\ tkbd_backlight' = 0
    /\ step_inc' = 0 /\ kbd_step_inc' = 0 /\ j' = 0

\* hist records, and changes nothing the program does:
\*   nwritten, nread  the bytes written to and read from the pipe so far;
\*   lastid           the number (in the order written) of the byte last read;
\*   writes, kwrites  the screen and keyboard writes of the running or last
\*                    call of stepper;
\*   mono             each screen value it wrote was below the one before;
\*   last             the fade xloop completed last: "dim" or "brighten";
\*   dimexit          the first SIGINT/SIGTERM came while dimmed or dimming;
\*   pendexit         it came while a MSG_DIM or MSG_BRIGHTEN was in the pipe;
\*   intr             the running call of stepper was ended by what its poll
\*                    saw (lines 440-443);
\*   seen, seendev    a fade down saw a reset notification before its last
\*                    step, and the devices at that moment.
Init ==
    /\ \E s \in Starts :
          /\ dim_screen = s[1][1] /\ dim_kbd = s[1][2] /\ use_als = s[1][3]
          /\ scr = s[2] /\ kbd = s[3]
    /\ dimmed = FALSE /\ exiting = FALSE
    /\ force_dim = FALSE /\ force_brighten = FALSE
    /\ backlight = ScreenPct(-1) /\ kbd_backlight = KbdPct(-1)
    /\ idle_alarm = "active" /\ reset_alarm = "none"
    /\ pipe = <<>> /\ xq = <<>>
    /\ pc = "XPending" /\ caller = "none"
    /\ new_backlight = 0 /\ new_kbd_backlight = 0 /\ steps = 0 /\ inter = FALSE
    /\ tbacklight = 0 /\ tkbd_backlight = 0
    /\ step_inc = 0 /\ kbd_step_inc = 0 /\ j = 0
    /\ als = -1 /\ lux = 0
    /\ nsig = 0
    /\ hist = [nwritten |-> 0, nread |-> 0, lastid |-> 0, writes |-> 0,
               kwrites |-> 0, mono |-> TRUE, last |-> "none", dimexit |-> FALSE,
               pendexit |-> FALSE, intr |-> FALSE, seen |-> FALSE,
               seendev |-> <<0, 0>>]

\* ------------------------------------------------------- signal handlers

\* write(pipemsg[1], &msg, 1): the byte, numbered in the order written.
WritePipe(msg) == Append(pipe, [msg |-> msg, id |-> hist.nwritten + 1])

\* A signal that arrives while the program sleeps in poll() makes poll
\* return -1: XPeekEventOrTimeout then tests XPending again.  A signal that
\* arrives before poll is entered does not.
Interrupted ==
    \/ pc' = pc
    \/ pc = "poll" /\ pc' = "XPending"
    \/ pc = "spoll" /\ pc' = "sXPending"

\* The fade down of xloop is running.
Dimming == caller = "dim" /\ pc \in {"stepper", "step", "sXPending", "spoll", "return"}

\* A handler that leaves `exiting` to the reader of the pipe.
OnlyWrites == UNCHANGED exiting

\* Line 734: exiting = 1, in the handler itself.
SetExiting == exiting' = TRUE

\* SIGINT or SIGTERM.
bail ==
    /\ Running /\ nsig < MaxSignals
    /\ nsig' = nsig + 1
    /\ IF exiting
         THEN /\ pc' = "killed"
              /\ UNCHANGED <<flags, pipe, hist>>
         ELSE /\ pipe' = WritePipe(MSG_EXIT)
              /\ SetExiting
              /\ Interrupted
              /\ hist' = [hist EXCEPT
                            !.nwritten = @ + 1,
                            !.dimexit = dimmed \/ Dimming,
                            !.pendexit = \E i \in 1..Len(pipe) :
                                            pipe[i].msg \in {MSG_DIM, MSG_BRIGHTEN}]
              /\ UNCHANGED <<dimmed, force_dim, force_brighten>>
    /\ UNCHANGED <<opts, targets, alarms, devices, xq, caller, args, locals, light>>

\* SIGUSR1.
sigusr1 ==
    /\ Running /\ nsig < MaxSignals
    /\ nsig' = nsig + 1
    /\ pipe' = WritePipe(MSG_DIM)
    /\ hist' = [hist EXCEPT !.nwritten = @ + 1]
    /\ Interrupted
    /\ UNCHANGED <<opts, flags, targets, alarms, devices, xq, caller, args, locals, light>>

\* SIGUSR2.
sigusr2 ==
    /\ Running /\ nsig < MaxSignals
    /\ nsig' = nsig + 1
    /\ pipe' = WritePipe(MSG_BRIGHTEN)
    /\ hist' = [hist EXCEPT !.nwritten = @ + 1]
    /\ Interrupted
    /\ UNCHANGED <<opts, flags, targets, alarms, devices, xq, caller, args, locals, light>>

\* ------------------------------------------------------------ the server

\* The alarm created by set_alarm(&idle_alarm, XSyncPositiveComparison) has
\* delta 0: it sends one XSyncAlarmNotify when the idle counter reaches its
\* value and becomes inactive.
IdleAlarmNotify ==
    /\ Running /\ idle_alarm = "active" /\ Len(xq) < MaxXQ
    /\ xq' = Append(xq, "idle")
    /\ idle_alarm' = "inactive"
    /\ UNCHANGED <<opts, flags, targets, reset_alarm, devices, pipe, pc, caller, args,
                   locals, light, counts, hist>>

\* The alarm created by set_alarm(&reset_alarm, XSyncNegativeTransition)
\* sends an XSyncAlarmNotify each time the idle counter falls below its
\* value (the user is active again) and stays active.
ResetAlarmNotify ==
    /\ Running /\ reset_alarm = "active" /\ Len(xq) < MaxXQ
    /\ xq' = Append(xq, "reset")
    /\ UNCHANGED <<opts, flags, targets, alarms, devices, pipe, pc, caller, args,
                   locals, light, counts, hist>>

\* Any other event the server sends to every client (MappingNotify).
OtherEvent ==
    /\ Running /\ Len(xq) < MaxXQ
    /\ xq' = Append(xq, "other")
    /\ UNCHANGED <<opts, flags, targets, alarms, devices, pipe, pc, caller, args,
                   locals, light, counts, hist>>

\* A set_alarm that creates no alarm.
NotCreated(alarm) == alarm

\* Lines 377-380: the alarm after set_alarm, whatever it was before.
set_alarm(alarm) == "active"

\* set_alarm(alarm, test): the old alarm, if any, is destroyed and a new
\* one created.  Notifications of the old alarm that are still queued carry
\* an alarm id that equals neither idle_alarm nor reset_alarm any more.
Stale(q, kind) == [i \in 1..Len(q) |-> IF q[i] = kind THEN "other" ELSE q[i]]

\* ------------------------------------------------- XPeekEventOrTimeout

\* A read that leaves the byte in the pipe.
Peeks ==
    /\ pipe' = pipe
    /\ exiting' = (exiting \/ Head(pipe).msg = MSG_EXIT)
    /\ force_dim' = (force_dim \/ Head(pipe).msg = MSG_DIM)
    /\ force_brighten' = (force_brighten \/ Head(pipe).msg = MSG_BRIGHTEN)
    /\ UNCHANGED dimmed

\* Lines 777-799: read(pipemsg[0], &msg, 1) and the switch on msg.
ReadPipe ==
    /\ pipe' = Tail(pipe)
    /\ exiting' = (exiting \/ Head(pipe).msg = MSG_EXIT)
    /\ force_dim' = (force_dim \/ Head(pipe).msg = MSG_DIM)
    /\ force_brighten' = (force_brighten \/ Head(pipe).msg = MSG_BRIGHTEN)
    /\ UNCHANGED dimmed

\* The byte just read, recorded.
Counted(h) == [h EXCEPT !.nread = @ + 1, !.lastid = Head(pipe).id]

\* xloop, line 288: while (!XPending(dpy)).
XPeek_XPending ==
    /\ pc = "XPending"
    /\ pc' = IF xq # <<>> THEN "check" ELSE "poll"
    /\ UNCHANGED <<opts, flags, targets, alarms, devices, pipe, xq, caller, args,
                   locals, light, counts, hist>>

\* A timeout that calls als_fetch whether dimmed or not.
AlwaysFetches == "als_fetch"

\* Lines 289-291: after a timeout, als_fetch when not dimmed, and continue.
TimedOut == IF ~dimmed THEN "als_fetch" ELSE "XPending"

\* xloop, lines 288-291: poll() returns; the pipe is looked at first.  With
\* use_als poll waits one second only, and als_fetch is called when nothing
\* came and the screen is not dimmed.
XPeek_poll ==
    /\ pc = "poll"
    /\ \/ /\ pipe # <<>>
          /\ ReadPipe
          /\ hist' = Counted(hist)
          /\ pc' = "check"
       \/ /\ pipe = <<>> /\ xq # <<>>
          /\ pc' = "check"
          /\ UNCHANGED <<flags, pipe, hist>>
       \/ /\ pipe = <<>> /\ xq = <<>> /\ use_als
          /\ pc' = TimedOut
          /\ UNCHANGED <<flags, pipe, hist>>
    /\ UNCHANGED <<opts, targets, alarms, devices, xq, caller, args, locals, light, counts>>

\* ----------------------------------------------------------------- xloop

\* A call of stepper(nb, nkb, n, i) from the place c of the program.
CallStepper(nb, nkb, n, i, c) ==
    /\ new_backlight' = nb /\ new_kbd_backlight' = nkb
    /\ steps' = n /\ inter' = i
    /\ caller' = c
    /\ pc' = "stepper"

\* Lines 297-302: the forced requests come first, and only without one is
\* an event taken from the queue by XNextEvent.
FromQueue == ~force_dim /\ ~force_brighten
Event == Head(xq)
Rest == IF FromQueue THEN Tail(xq) ELSE xq

\* Lines 304-310: the continue statements.
Ignored == FromQueue /\ ((~dim_screen /\ ~dim_kbd) \/ Event = "other")
do_dim == force_dim \/ (FromQueue /\ Event = "idle")
do_brighten == (~force_dim /\ force_brighten) \/ (FromQueue /\ Event = "reset")

\* A test that forgets !dimmed.
DimsAgain == do_dim

\* Line 324: if (do_dim && !dimmed).
MayDim == do_dim /\ ~dimmed

\* Lines 294-295 and 348-352: leave the loop, and restore when dimmed.
xloop_exit ==
    /\ pc = "check" /\ exiting
    /\ IF dimmed
         THEN CallStepper(backlight, kbd_backlight, brighten_steps, FALSE, "exit")
         ELSE pc' = "done" /\ UNCHANGED <<caller, args>>
    /\ UNCHANGED <<opts, flags, targets, alarms, devices, pipe, xq, locals, light, counts,
                   hist>>

\* Lines 302-310: an event that is not a notification of one of the two
\* alarms, or no device to dim.
xloop_continue ==
    /\ pc = "check" /\ ~exiting /\ Ignored
    /\ xq' = Rest
    /\ pc' = "XPending"
    /\ UNCHANGED <<opts, flags, targets, alarms, devices, pipe, caller, args, locals,
                   light, counts, hist>>

\* A fade down that takes the steps of the fade up.
WrongSteps == IF force_dim THEN 1 ELSE brighten_steps

\* Line 332: the steps of the fade down.
DimSteps == IF force_dim THEN 1 ELSE dim_steps

\* Lines 324-332: arm the reset alarm, remember the levels, fade down.
xloop_dim ==
    /\ pc = "check" /\ ~exiting /\ ~Ignored
    /\ MayDim
    /\ reset_alarm' = set_alarm(reset_alarm)
    /\ xq' = Stale(Rest, "reset")
    /\ backlight' = IF dim_screen THEN backlight_get(scr) ELSE backlight
    /\ kbd_backlight' = IF dim_kbd THEN kbd_backlight_get(kbd) ELSE kbd_backlight
    /\ CallStepper(ScreenPct(dim_pct), KbdPct(0), DimSteps, TRUE, "dim")
    /\ hist' = [hist EXCEPT !.seen = FALSE, !.seendev = <<0, 0>>]
    /\ UNCHANGED <<opts, flags, idle_alarm, devices, pipe, locals, light, counts>>

\* Lines 334-336: a brighten request while dimmed; als_fetch comes first.
xloop_brighten ==
    /\ pc = "check" /\ ~exiting /\ ~Ignored
    /\ ~MayDim
    /\ do_brighten /\ dimmed
    /\ xq' = Rest
    /\ pc' = IF use_als THEN "als_fetch_dimmed" ELSE "brighten"
    /\ UNCHANGED <<opts, flags, targets, alarms, devices, pipe, caller, args, locals,
                   light, counts, hist>>

\* A fade up that takes brighten_steps steps, forced or not.
AlwaysBrightenSteps == brighten_steps

\* Line 341: the steps of the fade up.
BrightenSteps == IF force_brighten THEN 1 ELSE brighten_steps

\* A fade up that polls between its steps, like the fade down.
PollsToo == TRUE

\* Line 341: the fade up is called with inter 0.
BrightenInter == FALSE

\* Lines 338-341: arm the idle alarm, fade back up.
xloop_undim ==
    /\ pc = "brighten"
    /\ idle_alarm' = set_alarm(idle_alarm)
    /\ xq' = Stale(xq, "idle")
    /\ CallStepper(backlight, kbd_backlight, BrightenSteps, BrightenInter, "brighten")
    /\ UNCHANGED <<opts, flags, targets, reset_alarm, devices, pipe, locals, light, counts,
                   hist>>

\* Lines 324, 334 and 345: a request that changes nothing.
xloop_nothing ==
    /\ pc = "check" /\ ~exiting /\ ~Ignored
    /\ ~MayDim
    /\ ~(do_brighten /\ dimmed)
    /\ xq' = Rest
    /\ force_dim' = FALSE /\ force_brighten' = FALSE
    /\ pc' = "XPending"
    /\ UNCHANGED <<opts, dimmed, exiting, targets, alarms, devices, pipe, caller, args,
                   locals, light, counts, hist>>

\* Lines 333, 342, 345 and 353: what follows the return of stepper.
xloop_after_stepper ==
    /\ pc = "return" /\ caller \in {"dim", "brighten", "exit"}
    /\ CASE caller = "dim" ->
              /\ dimmed' = TRUE
              /\ force_dim' = FALSE /\ force_brighten' = FALSE
              /\ pc' = "XPending"
         [] caller = "brighten" ->
              /\ dimmed' = FALSE
              /\ force_dim' = FALSE /\ force_brighten' = FALSE
              /\ pc' = "XPending"
         [] caller = "exit" ->
              /\ pc' = "done"
              /\ UNCHANGED <<dimmed, force_dim, force_brighten>>
    /\ hist' = [hist EXCEPT !.last = caller, !.writes = 0, !.kwrites = 0, !.mono = TRUE,
                             !.intr = FALSE,
                             !.seen = @ /\ caller = "dim",
                             !.seendev = IF caller = "dim" THEN @ ELSE <<0, 0>>]
    /\ caller' = "none"
    /\ NoArgs /\ NoLocals
    /\ UNCHANGED <<opts, exiting, targets, alarms, devices, pipe, xq, light, counts>>

\* ------------------------------------------------------------- als_fetch

\* Where als_fetch returns to: the continue of line 291, or line 338.
AlsReturn(from) == IF from = "als_fetch" THEN "XPending" ELSE "brighten"

\* Lines 671-676: the last scene whose min_lux is not above the reading.
Scene(l) ==
    als_settings[CHOOSE i \in 1..Len(als_settings) :
                    /\ l >= als_settings[i].min_lux
                    /\ \A k \in (i + 1)..Len(als_settings) : l < als_settings[k].min_lux]

Abs(n) == IF n < 0 THEN -n ELSE n

\* Lines 654-657: the sensor cannot be read.
als_fetch_warn ==
    /\ pc \in {"als_fetch", "als_fetch_dimmed"}
    /\ pc' = AlsReturn(pc)
    /\ UNCHANGED <<opts, flags, targets, alarms, devices, pipe, xq, caller, args, locals,
                   light, counts, hist>>

\* An als_fetch without hysteresis.
NeverAbsorbed(l) == FALSE

\* Lines 661-665: the reading l is close to the last one.
Absorbed(l) == als >= 0 /\ Abs(l - als) < 10

\* Lines 659-706 up to the call of stepper: a reading l.
als_fetch ==
    /\ pc \in {"als_fetch", "als_fetch_dimmed"}
    /\ \E l \in LuxSamples :
          IF Absorbed(l)
            THEN /\ als' = l
                 /\ pc' = AlsReturn(pc)
                 /\ UNCHANGED <<targets, caller, args, lux>>
            ELSE LET as == Scene(l)
                     tkbd == IF dim_kbd /\ KbdRound(kbd_backlight) # KbdPct(as.kbd_backlight)
                               THEN KbdPct(as.kbd_backlight) ELSE kbd_backlight
                     tb == IF ScreenRound(backlight) # ScreenPct(as.backlight)
                             THEN ScreenPct(as.backlight) ELSE backlight
                 IN  IF KbdRound(kbd_backlight) # tkbd \/ ScreenRound(backlight) # tb
                       THEN /\ CallStepper(tb, tkbd, dim_steps, FALSE, pc)
                            /\ lux' = l
                            /\ als' = (IF als < 0 THEN l ELSE als)
                            /\ UNCHANGED targets
                       ELSE /\ backlight' = tb /\ kbd_backlight' = tkbd
                            /\ als' = l
                            /\ pc' = AlsReturn(pc)
                            /\ UNCHANGED <<caller, args, lux>>
    /\ UNCHANGED <<opts, flags, alarms, devices, pipe, xq, locals, counts, hist>>

\* Lines 697-706: after als_fetch's stepper.
als_fetch_after_stepper ==
    /\ pc = "return" /\ caller \in {"als_fetch", "als_fetch_dimmed"}
    /\ backlight' = new_backlight
    /\ kbd_backlight' = new_kbd_backlight
    /\ als' = lux /\ lux' = 0
    /\ pc' = AlsReturn(caller)
    /\ caller' = "none"
    /\ NoArgs /\ NoLocals
    /\ hist' = [hist EXCEPT !.writes = 0, !.kwrites = 0, !.mono = TRUE]
    /\ UNCHANGED <<opts, flags, alarms, devices, pipe, xq, counts>>

\* --------------------------------------------------------------- stepper

\* Lines 390 and 406: the screen is stepped when it is dimmed or follows
\* the ambient light.
ScreenOn == dim_screen \/ use_als

\* An increment that does not compare the integer parts.
AlwaysSteps(same, new, cur, n) == (new - cur) \div n

\* Lines 392 and 398: the increment, 0 when the integer parts are equal.
Increment(same, new, cur, n) == IF same THEN 0 ELSE (new - cur) \div n

\* Lines 390-417: read the devices, compute the increments, return when
\* there is nothing to do, else discard the queued events (XSync(dpy, True)).
stepper_entry ==
    /\ pc = "stepper"
    /\ LET tb == backlight_get(scr)
           tk == kbd_backlight_get(kbd)
           si == IF ScreenOn
                   THEN Increment(ScreenInt(new_backlight) = ScreenInt(tb),
                                  new_backlight, tb, steps)
                   ELSE 0
           ki == IF dim_kbd
                   THEN Increment(KbdInt(new_kbd_backlight) = KbdInt(tk),
                                  new_kbd_backlight, tk, steps)
                   ELSE 0
       IN  IF si = 0 /\ ki = 0
             THEN /\ pc' = "return"
                  /\ UNCHANGED <<xq, locals>>
             ELSE /\ xq' = <<>>
                  /\ tbacklight' = (IF ScreenOn THEN tb ELSE 0)
                  /\ tkbd_backlight' = (IF dim_kbd THEN tk ELSE 0)
                  /\ step_inc' = si /\ kbd_step_inc' = ki
                  /\ j' = 1
                  /\ pc' = "step"
    /\ UNCHANGED <<opts, flags, targets, alarms, devices, pipe, caller, args, light, counts,
                   hist>>

\* A loop that leaves out the last step.
StopsShort ==
    IF j + 1 >= steps THEN pc' = "return" /\ j' = j
                      ELSE pc' = "step" /\ j' = j + 1

\* Line 419: j++ and j <= steps, the end of step j when nothing ends the
\* call early.
NextStep ==
    IF j = steps THEN pc' = "return" /\ j' = j
                 ELSE pc' = "step" /\ j' = j + 1

\* Lines 423-426 and 432-435: the value of step j.
StepValue(new, cur, inc) == IF j = steps THEN new ELSE cur + inc

\* Lines 419-438: the writes of step j.
stepper_step ==
    /\ pc = "step"
    /\ LET tb == StepValue(new_backlight, tbacklight, step_inc)
           tk == StepValue(new_kbd_backlight, tkbd_backlight, kbd_step_inc)
       IN  /\ tbacklight' = (IF ScreenOn THEN tb ELSE tbacklight)
           /\ scr' = (IF ScreenOn THEN backlight_set(tb) ELSE scr)
           /\ tkbd_backlight' = (IF dim_kbd THEN tk ELSE tkbd_backlight)
           /\ kbd' = (IF dim_kbd THEN kbd_backlight_set(tk) ELSE kbd)
           /\ hist' = [hist EXCEPT
                         !.writes = IF ScreenOn THEN @ + 1 ELSE @,
                         !.kwrites = IF dim_kbd THEN @ + 1 ELSE @,
                         !.mono = @ /\ (ScreenOn => tb < tbacklight)]
    /\ IF inter THEN pc' = "sXPending" /\ j' = j ELSE NextStep
    /\ UNCHANGED <<opts, flags, targets, alarms, pipe, xq, caller, args, step_inc,
                   kbd_step_inc, light, counts>>

\* A stepper that goes on whatever its poll saw.
GoesOn == NextStep

\* Lines 440-443: XPeekEventOrTimeout returned 1, stepper returns.
BreakEarly == pc' = "return" /\ j' = j

\* The call of stepper is ended by what its poll saw; when that is the
\* X connection with a notification of the reset alarm, in the fade down
\* of xloop and before its last step, the devices of that moment are
\* recorded.
Broken(h, byEvent) ==
    IF caller = "dim" /\ j < steps /\ byEvent /\ \E i \in 1..Len(xq) : xq[i] = "reset"
      THEN [h EXCEPT !.intr = TRUE, !.seen = TRUE, !.seendev = devices]
      ELSE [h EXCEPT !.intr = TRUE]

\* Line 440: while (!XPending(dpy)) of XPeekEventOrTimeout(dpy, &e, 1).
stepper_XPending ==
    /\ pc = "sXPending"
    /\ IF xq # <<>>
         THEN BreakEarly /\ hist' = Broken(hist, TRUE)
         ELSE pc' = "spoll" /\ j' = j /\ UNCHANGED hist
    /\ UNCHANGED <<opts, flags, targets, alarms, devices, pipe, xq, caller, args,
                   tbacklight, tkbd_backlight, step_inc, kbd_step_inc, light, counts>>

\* Line 440: poll() returns: a message, an event, or nothing within 1 ms.
stepper_poll ==
    /\ pc = "spoll"
    /\ \/ /\ pipe # <<>>
          /\ ReadPipe
          /\ hist' = Broken(Counted(hist), FALSE)
          /\ BreakEarly
       \/ /\ pipe = <<>> /\ xq # <<>>
          /\ BreakEarly
          /\ hist' = Broken(hist, TRUE)
          /\ UNCHANGED <<flags, pipe>>
       \/ /\ pipe = <<>> /\ xq = <<>>
          /\ NextStep
          /\ UNCHANGED <<flags, pipe, hist>>
    /\ UNCHANGED <<opts, targets, alarms, devices, xq, caller, args, tbacklight,
                   tkbd_backlight, step_inc, kbd_step_inc, light, counts>>

\* ------------------------------------------------------------------ spec

\* The signals the process may receive.
Signal == bail \/ sigusr1 \/ sigusr2

\* What the X server may send.
Server == IdleAlarmNotify \/ ResetAlarmNotify \/ OtherEvent

\* The steps of the program itself.
Program ==
    \/ XPeek_XPending \/ XPeek_poll
    \/ xloop_exit \/ xloop_continue \/ xloop_dim \/ xloop_brighten \/ xloop_undim
    \/ xloop_nothing \/ xloop_after_stepper
    \/ als_fetch_warn \/ als_fetch \/ als_fetch_after_stepper
    \/ stepper_entry \/ stepper_step \/ stepper_XPending \/ stepper_poll

Next == Signal \/ Server \/ Program

Spec == Init /\ [][Next]_vars

\* The program takes its steps as long as it can; signals and events come
\* or do not come.
LiveSpec == Spec /\ WF_vars(Program)

\* ------------------------------------------------------------ properties

\* Each dimmed device is at the level that `backlight`, `kbd_backlight`
\* (the levels read before the fade down) stand for.
Restored ==
    /\ dim_screen => scr = backlight_set(backlight)
    /\ dim_kbd => kbd = kbd_backlight_set(kbd_backlight)

\* C1: when the process has ended after a SIGINT or SIGTERM that came while
\* it was dimmed or fading down, the screen and the keyboard are at the
\* levels read before the fade down, a second SIGINT or SIGTERM included.
\* The code does not keep this: the second signal makes bail call exit(0)
\* at once (lines 723-724), with the devices as they are.
C1_ExitRestores == (~Running /\ hist.dimexit) => Restored

\* C2: once a SIGINT or SIGTERM has been delivered the process ends, with
\* no further event, notification or signal.  The code does not keep this:
\* the MSG_EXIT byte may be read by the poll of the fade down (line 440),
\* after which xloop waits in poll again and tests `exiting` only when the
\* next event or message comes.
C2_Terminates == exiting ~> ~Running

\* C3: without use_als, when the fade up of a dim/brighten cycle returns,
\* the devices are at the levels read before the fade down, and xloop then
\* is not dimmed.  The code does not keep this: a fade up from a level
\* with the same integer percentage as the level to restore writes nothing
\* (lines 392, 398 and 403).
C3_CycleRestores ==
    /\ (~use_als /\ pc = "return" /\ caller = "brighten") => Restored
    /\ (~use_als /\ hist.last = "brighten") => ~dimmed

\* C4: when the fade down of xloop sees a notification of the reset alarm
\* after the write of a step before the last, the devices stay as that
\* step left them until the fade up (or the restore on exit) writes, the
\* next call of stepper is that fade up, towards the levels read before
\* the fade down, and it leaves the devices at those levels.  The code
\* does not keep the last part: the fade up writes nothing when the level
\* the fade down stopped at has the same integer percentage as the level
\* to restore (lines 392, 398 and 403); and with use_als the call of
\* als_fetch on line 336 may fade to another level first.
C4_ResetDuringDim ==
    hist.seen =>
        /\ (caller \notin {"brighten", "exit"} \/ pc = "stepper")
              => devices = hist.seendev
        /\ pc = "stepper"
              => /\ caller \in {"brighten", "exit"}
                 /\ new_backlight = backlight /\ new_kbd_backlight = kbd_backlight
        /\ (pc = "return" /\ caller \in {"brighten", "exit"}) => Restored

\* The call of stepper that has returned was a fade down of xloop, started
\* by the idle alarm, that nothing ended early.
FadedDown == pc = "return" /\ caller = "dim" /\ ~force_dim /\ ~hist.intr

\* What C5 promises of such a fade down: dim_steps screen writes, each value
\* below the one before, the last one dim_pct.
AllSteps ==
    /\ hist.writes = dim_steps
    /\ hist.mono
    /\ tbacklight = ScreenPct(dim_pct)
    /\ scr = backlight_set(ScreenPct(dim_pct))

\* C5 as stated: from a screen level above dim_pct, a fade down started by
\* the idle alarm that nothing ends early makes dim_steps screen writes of
\* decreasing values, the last one dim_pct, and xloop is dimmed after it.
\* Violated from a level that is above dim_pct with the integer percentage
\* dim_pct: stepper writes nothing (lines 392 and 403).
C5_AsStated ==
    /\ (FadedDown /\ dim_screen /\ backlight > ScreenPct(dim_pct)) => AllSteps
    /\ hist.last = "dim" => dimmed

\* C5, amended: the same, from a screen level whose integer percentage is
\* above dim_pct.
C5_DimFade ==
    /\ (FadedDown /\ dim_screen /\ ScreenInt(backlight) > dim_pct) => AllSteps
    /\ hist.last = "dim" => dimmed

C5_Witness ==
    /\ FadedDown /\ dim_screen /\ ScreenInt(backlight) > dim_pct
    /\ hist.writes = dim_steps /\ scr = backlight_set(ScreenPct(dim_pct))

\* Each device stepper drives is where a write of its target puts it, and
\* that target is the value stepper wrote last.
AtTarget ==
    /\ ScreenOn => tbacklight = new_backlight /\ scr = backlight_set(new_backlight)
    /\ dim_kbd => /\ tkbd_backlight = new_kbd_backlight
                  /\ kbd = kbd_backlight_set(new_kbd_backlight)

\* C6 as stated: a call of stepper that nothing ends early leaves every
\* device it drives at its target, the last write being the target.
\* Violated when the level and the target differ but have the same integer
\* percentage for every device: nothing is written (lines 392, 398, 403).
C6_AsStated == (pc = "return" /\ ~hist.intr) => AtTarget

\* C6, amended: the same, unless the level and the target have the same
\* integer percentage for every device stepper drives (both increments
\* are 0), in which case nothing is written.
C6_RunReachesTarget ==
    (pc = "return" /\ ~hist.intr /\ (step_inc # 0 \/ kbd_step_inc # 0)) => AtTarget

C6_Witness ==
    /\ pc = "return" /\ ~hist.intr /\ step_inc # 0 /\ kbd_step_inc # 0
    /\ j = steps /\ steps > 1 /\ AtTarget

\* C7: when the poll of an interruptible call of stepper sees an X event or
\* reads a message after the writes of step j, the call returns: it writes
\* nothing more, and every device it drives is where the write of step j
\* put it.
C7_Interrupted ==
    hist.intr =>
        /\ inter /\ pc \in {"return", "killed"}
        /\ ScreenOn => hist.writes = j /\ scr = backlight_set(tbacklight)
        /\ dim_kbd => hist.kwrites = j /\ kbd = kbd_backlight_set(tkbd_backlight)

C7_Witness ==
    /\ hist.intr /\ pc = "return" /\ 1 <= j /\ j < steps
    /\ hist.writes = j /\ scr # backlight_set(new_backlight)

\* The level and the target of every device stepper drives have the same
\* integer part, (int)x of lines 392 and 398.
SameInts ==
    /\ ScreenOn => ScreenInt(new_backlight) = ScreenInt(backlight_get(scr))
    /\ dim_kbd => KbdInt(new_kbd_backlight) = KbdInt(kbd_backlight_get(kbd))

\* C8: a call of stepper whose devices all are at the integer percentage of
\* their targets returns at once: no device is written and the queued X
\* events are kept, whatever steps and inter are.
C8_NoOp ==
    [][(pc = "stepper" /\ SameInts /\ pc' \notin {"stepper", "killed"})
          => /\ pc' = "return"
             /\ devices' = devices /\ xq' = xq
             /\ hist'.writes = 0 /\ hist'.kwrites = 0]_vars

C8_Witness ==
    /\ pc = "return" /\ j = 0 /\ caller # "none" /\ SameInts
    /\ xq # <<>> /\ scr # backlight_set(new_backlight)

\* C9: the bytes the handlers wrote are read one by one in the order
\* written: the byte read last is the nread-th written, and the pipe holds
\* the ones written after it, in order.
C9_PipeOrder ==
    /\ hist.lastid = hist.nread
    /\ hist.nread + Len(pipe) = hist.nwritten
    /\ \A i \in 1..Len(pipe) : pipe[i].id = hist.nread + i

C9_Witness == hist.nread = MaxSignals /\ pipe = <<>> /\ force_brighten /\ Running

\* C10: after a SIGINT or SIGTERM that came with a MSG_DIM or MSG_BRIGHTEN
\* in the pipe, the next time xloop gets past XPeekEventOrTimeout it leaves
\* the loop (and restores when dimmed): it starts no fade down or up.
C10_ExitFirst ==
    [][(hist.pendexit /\ pc = "check" /\ pc' # "check")
          => \/ pc' \in {"done", "killed"}
             \/ pc' = "stepper" /\ caller' = "exit"]_vars

C10_Witness == hist.pendexit /\ pc = "done" /\ pipe # <<>>

\* The call of stepper is a fade up: that of line 340 or the restore of
\* line 351.
FadeUp == caller \in {"brighten", "exit"}

Sampling == pc \in {"als_fetch", "als_fetch_dimmed"}

\* The step is als_fetch with a reading that differs by d from the last
\* one: the reading is in lux' when stepper is called, else in als'.
SampleDiff(d) ==
    /\ Sampling /\ als >= 0 /\ ~Sampling' /\ pc' # "killed"
    /\ Abs((IF pc' = "stepper" THEN lux' ELSE als') - als) = d

\* The reading is only remembered: no call of stepper, the levels to
\* restore and the devices as they were.
OnlyRemembered == pc' # "stepper" /\ targets' = targets /\ devices' = devices

\* C12 as stated: a reading that differs from the last one by 10 or less
\* is only remembered.  Violated by a difference of exactly 10: line 663
\* tests abs((int)lux - (int)als) < 10.
C12_AsStated == [][(\E d \in 0..10 : SampleDiff(d)) => OnlyRemembered]_vars

\* C12, amended: a reading that differs from the last one by less than 10
\* is only remembered.
C12_Hysteresis == [][(\E d \in 0..9 : SampleDiff(d)) => OnlyRemembered]_vars

\* A reading of 12 after one of 5 was remembered, and the level stayed
\* that of the scene of 5.
C12_Witness ==
    /\ use_als /\ als = 12 /\ caller = "none" /\ ~Sampling
    /\ backlight = ScreenPct(Scene(5).backlight)
    /\ Scene(12).backlight # Scene(5).backlight

\* C13: a MSG_BRIGHTEN read after a fade down has begun leads to the fade
\* up: force_brighten, once set while dimming or dimmed, is cleared only
\* when the fade up returns.  The code does not keep this: a MSG_BRIGHTEN
\* read by the poll of the fade down (line 440) sets force_brighten, and
\* line 345 clears it when that fade down returns; xloop is then dimmed
\* and waits for an X event or another signal.
C13_ForceBrightenKept ==
    [][(force_brighten /\ ~force_brighten' /\ (dimmed \/ Dimming))
          => (caller = "brighten" /\ pc = "return")]_vars

\* The notifications of the reset alarm in the queue q.
NReset(q) == Cardinality({i \in 1..Len(q) : q[i] = "reset"})

\* C14: a notification of the reset alarm armed for a fade down leaves the
\* queue only when xloop takes it with XNextEvent (line 302), or when the
\* fade up is already on its way.  The code does not keep this: the fade
\* down calls XSync(dpy, True) (line 417) after the alarm was armed on line
\* 325, which discards a notification that arrived in between.
C14_ResetObserved ==
    [][NReset(xq') < NReset(xq) => (pc = "check" \/ caller # "dim")]_vars

\* The notifications of the idle alarm in the queue q.
NIdle(q) == Cardinality({i \in 1..Len(q) : q[i] = "idle"})

\* C15: the notification of the idle alarm, which is sent once, leaves the
\* queue only when xloop takes it with XNextEvent (line 302) or when the
\* alarm is armed anew (line 338).  The code does not keep this: every
\* stepper that has something to do calls XSync(dpy, True) (line 417),
\* that of als_fetch included, and the discarded notification is not sent
\* again.
C15_IdleObserved ==
    [][NIdle(xq') < NIdle(xq) => pc \in {"check", "brighten"}]_vars

\* The fade up of line 340 has returned after stepping the screen; it was
\* asked for by a MSG_BRIGHTEN exactly when force_brighten is set.
SteppedUp == caller = "brighten" /\ pc = "return" /\ ScreenOn /\ step_inc # 0

\* C16 as stated: a fade up asked for by a MSG_BRIGHTEN makes
\* brighten_steps screen writes, like one asked for by the reset alarm.
\* Violated: line 341 passes 1 step when force_brighten is set.
C16_AsStated == SteppedUp => hist.writes = brighten_steps

\* C16, amended: a fade up asked for by a MSG_BRIGHTEN makes one screen
\* write, that of the level to restore; one asked for by the reset alarm
\* makes brighten_steps screen writes.
C16_ForcedOneStep ==
    /\ (SteppedUp /\ force_brighten) => (steps = 1 /\ hist.writes = 1 /\ AtTarget)
    /\ (SteppedUp /\ ~force_brighten)
          => (steps = brighten_steps /\ hist.writes = brighten_steps /\ AtTarget)

C16_Witness ==
    /\ SteppedUp /\ force_brighten /\ hist.writes = 1
    /\ scr = backlight_set(backlight) /\ brighten_steps > 1

\* als_fetch is running: it reads the sensor, or its stepper runs.
AlsBusy == Sampling \/ caller \in {"als_fetch", "als_fetch_dimmed"}

C18_AsStated == reset_alarm = "active" => (dimmed \/ Dimming)

\* C18, amended: the reset alarm is armed when a fade down begins (line
\* 325) and at no other place, it is armed whenever xloop fades down or is
\* dimmed, and once armed it stays armed, also when xloop is not dimmed.
C18_ResetArmed ==
    [][/\ (dimmed \/ Dimming) => reset_alarm = "active"
       /\ reset_alarm = "active" => reset_alarm' = "active"
       /\ reset_alarm' # reset_alarm => (pc = "check" /\ caller' = "dim")]_vars

C18_Witness ==
    /\ reset_alarm = "active" /\ ~dimmed /\ ~Dimming
    /\ hist.last = "brighten" /\ pc = "poll" /\ xq = <<>> /\ pipe = <<>>

\* C19: during the fade down no device is put above the level read from
\* it just before.  The code does not keep this: from a screen level whose
\* integer percentage is below dim_pct the increment of line 393 is
\* positive, and the fade down raises the screen to dim_pct.
C19_DimNeverRaises ==
    caller = "dim" =>
        /\ dim_screen => backlight_get(scr) <= backlight
        /\ dim_kbd => kbd_backlight_get(kbd) <= kbd_backlight

\* xloop is past line 295 with a request to dim: a MSG_DIM read from the
\* pipe, or a notification of the idle alarm at the head of the queue.
DimRequest ==
    /\ pc = "check" /\ ~exiting
    /\ \/ force_dim
       \/ /\ ~force_brighten /\ (dim_screen \/ dim_kbd)
          /\ xq # <<>> /\ Head(xq) = "idle"

\* The same with a request to brighten: a MSG_BRIGHTEN, or a notification
\* of the reset alarm.
BrightenRequest ==
    /\ pc = "check" /\ ~exiting /\ ~force_dim
    /\ \/ force_brighten
       \/ /\ (dim_screen \/ dim_kbd)
          /\ xq # <<>> /\ Head(xq) = "reset"

\* C20: a request to dim taken while dimmed, and a request to brighten
\* taken while not dimmed, change nothing: xloop goes back to wait, with
\* the devices, the levels to restore, the alarms and dimmed as they were.
C20_RedundantRequest ==
    [][(((DimRequest /\ dimmed) \/ (BrightenRequest /\ ~dimmed)) /\ pc' # pc)
          => /\ pc' \in {"XPending", "killed"}
             /\ devices' = devices /\ targets' = targets
             /\ alarms' = alarms /\ dimmed' = dimmed]_vars

C20_Witness ==
    /\ DimRequest /\ force_dim /\ dimmed /\ dim_screen
    /\ scr # backlight_set(backlight)

=============================================================================
